---------------------------- MODULE Spec2Model ----------------------------
(***************************************************************************)
(* A model of the AI-tutor repository: the HTTP API of                     *)
(* backend/app/main.py over the tables of backend/app/models.py, and the   *)
(* project analyzer of analyze_project.py.                                 *)
(*                                                                         *)
(* Four specifications share the variables:                                *)
(*   Spec          the account side of the API (users, user_profiles,      *)
(*                 /token), one request handled per step;                  *)
(*   CatalogSpec   the catalog side of the API (courses, modules,          *)
(*                 lessons), one request handled per step;                 *)
(*   ConcurrentSpec                                                        *)
(*                 the create handlers of the API run by two worker        *)
(*                 threads, a handler's query and its commit being         *)
(*                 separate steps;                                         *)
(*   AnalyzerSpec  one run of the analyzer's main() on a directory tree.   *)
(* No handler of main.py touches both the account and the catalog tables,  *)
(* and the analyzer shares nothing with the API.                           *)
(***************************************************************************)
EXTENDS Integers, Sequences, FiniteSets, TLC

VARIABLES
    users,          \* table users, rows in insertion order
    user_profiles,  \* table user_profiles
    courses,        \* table courses
    modules,        \* table modules
    lessons,        \* table lessons
    request,        \* the request handled by the last step
    response,       \* the response it got
    returned,       \* history: <<id, email>> of every user a create_user returned
    sessions,       \* the requests handled concurrently, each with its own db session
    project,        \* the analyzer's target: its root path and the files under it
    pc,             \* the analyzer: the step of main() that runs next
    files,          \* ProjectAnalyzer.files
    file_counts,    \* ProjectAnalyzer.file_counts
    component_status, \* ProjectAnalyzer.component_status
    errors,         \* ProjectAnalyzer.errors
    code_analysis,  \* ProjectAnalyzer.code_analysis
    next_steps,     \* what generate_next_steps returned
    report,         \* the JSON report file main() wrote, None while there is none
    exit_status     \* what main() returned

apiVars ==
    <<users, user_profiles, courses, modules, lessons, request, response, returned,
      sessions>>

analyzerVars ==
    <<project, pc, files, file_counts, component_status, errors, code_analysis,
      next_steps, report, exit_status>>

vars == <<apiVars, analyzerVars>>

-----------------------------------------------------------------------------
(* Bounds of the model. *)

MaxUsers == 2
MaxProfiles == 2

Emails == {"ann@x.org", "bob@x.org", "Ann@x.org"}
Passwords == {"pw1", "pw2"}
UserIds == 0 .. MaxUsers + 1
FirstNames == {"Ann"}

MaxCourses == 2
MaxModules == 1
MaxLessons == 1
MaxFiles == 3
MaxRows == 4

DefaultLimit == 100

CoursePayloads ==
    {[title |-> "Algebra", description |-> "d", difficulty_level |-> "Beginner",
      prerequisites |-> "None"],
     [title |-> "Logic", description |-> "d", difficulty_level |-> "Advanced",
      prerequisites |-> "Algebra"]}
CourseIds == 0 .. MaxCourses + 1
ModuleIds == 0 .. MaxModules + 1
Orders == {1}
SkipValues == -1 .. MaxCourses + 1
LimitValues == (-1 .. MaxCourses + 1) \cup {DefaultLimit}

-----------------------------------------------------------------------------
(* Helpers. *)

Range(s) == {s[i] : i \in 1 .. Len(s)}

Min(a, b) == IF a < b THEN a ELSE b

SetMax(S) == CHOOSE m \in S : \A x \in S : x <= m

None == [none |-> TRUE]

\* Integer primary key assigned by the store on insert: one more than the
\* largest id of the table (rows are never deleted), 1 for an empty table.
NextId(table) ==
    IF table = <<>> THEN 1 ELSE SetMax({r.id : r \in Range(table)}) + 1

\* Query.first() on the rows a filter kept: the first of them, or None.
First(rows) == IF rows = <<>> THEN None ELSE rows[1]

\* raise HTTPException(status_code, detail, headers)
HTTPException(status_code, detail, headers) ==
    [status |-> status_code, detail |-> detail, headers |-> headers, body |-> None]

\* a handler's return value, sent with the route's status code
Returns(status_code, body) ==
    [status |-> status_code, detail |-> "", headers |-> {}, body |-> body]

-----------------------------------------------------------------------------
(* Password and token utilities (app/utils.py, app/auth.py). *)

hash_password(password) == <<"hashed", password>>

verify_password(password, hashed) == hashed = hash_password(password)

create_access_token(data, expires_minutes) ==
    [sub |-> data.sub, expires_minutes |-> expires_minutes]

ACCESS_TOKEN_EXPIRE_MINUTES == 30

-----------------------------------------------------------------------------
(* Schemas: the response models. *)

\* schemas.User: email, id, is_active (created_at is not modelled)
UserOut(row) == [id |-> row.id, email |-> row.email, is_active |-> row.is_active]

\* schemas.UserProfile: id, user_id and the optional personal fields
UserProfileOut(row) == row

-----------------------------------------------------------------------------
(* The account side of the API. *)

\* models.User(email=..., hashed_password=...): is_active defaults to True
NewUser(id, email, hashed_password) ==
    [id |-> id, email |-> email, hashed_password |-> hashed_password,
     is_active |-> TRUE]

\* The two 401 responses of login_for_access_token, one per raise statement.
NoSuchUserResponse ==
    HTTPException(401, "Incorrect username or password",
                  {<<"WWW-Authenticate", "Bearer">>})

\* BadPasswordResponse with a detail of its own.
BadPasswordResponse_OwnDetail ==
    HTTPException(401, "Incorrect password", {<<"WWW-Authenticate", "Bearer">>})

BadPasswordResponse ==
    HTTPException(401, "Incorrect username or password",
                  {<<"WWW-Authenticate", "Bearer">>})

\* POST /token
LoginResponse(username, password) ==
    LET user == First(SelectSeq(users, LAMBDA u : u.email = username))
    IN  IF user = None THEN NoSuchUserResponse
        ELSE IF ~verify_password(password, user.hashed_password)
             THEN BadPasswordResponse
        ELSE Returns(200,
                [access_token |->
                     create_access_token([sub |-> user.email],
                                         ACCESS_TOKEN_EXPIRE_MINUTES),
                 token_type |-> "bearer"])

login_for_access_token ==
    \E username \in Emails, password \in Passwords :
        /\ request' = [op |-> "login_for_access_token",
                       username |-> username, password |-> password]
        /\ response' = LoginResponse(username, password)
        /\ UNCHANGED <<users, user_profiles, courses, modules, lessons, returned>>
        /\ UNCHANGED <<sessions, analyzerVars>>

\* ExistingUser with the lookup left out: no stored user is ever found.
ExistingUser_Unchecked(email) == None

\* The existence check of create_user: the stored user with this email.
ExistingUser(email) == First(SelectSeq(users, LAMBDA u : u.email = email))

\* POST /users/
create_user ==
    \E email \in Emails, password \in Passwords :
        /\ request' = [op |-> "create_user", email |-> email, password |-> password]
        /\ IF ExistingUser(email) # None
           THEN /\ response' = HTTPException(400, "Email already registered", {})
                /\ UNCHANGED <<users, returned>>
           ELSE /\ Len(users) < MaxUsers
                /\ LET db_user == NewUser(NextId(users), email, hash_password(password))
                   IN  /\ users' = Append(users, db_user)
                       /\ response' = Returns(201, UserOut(db_user))
                       /\ returned' = returned \cup {<<db_user.id, db_user.email>>}
        /\ UNCHANGED <<user_profiles, courses, modules, lessons>>
        /\ UNCHANGED <<sessions, analyzerVars>>

\* GET /users/{user_id}
ReadUserResponse(user_id) ==
    LET db_user == First(SelectSeq(users, LAMBDA u : u.id = user_id))
    IN  IF db_user = None THEN HTTPException(404, "User not found", {})
        ELSE Returns(200, UserOut(db_user))

read_user ==
    \E user_id \in UserIds :
        /\ request' = [op |-> "read_user", user_id |-> user_id]
        /\ response' = ReadUserResponse(user_id)
        /\ UNCHANGED <<users, user_profiles, courses, modules, lessons, returned>>
        /\ UNCHANGED <<sessions, analyzerVars>>

\* ProfileOwner that finds any stored user, whatever the id asked for.
ProfileOwner_AnyUser(user_id) == First(SelectSeq(users, LAMBDA u : TRUE))

\* The existence check of create_user_profile: the stored user with this id.
ProfileOwner(user_id) == First(SelectSeq(users, LAMBDA u : u.id = user_id))

\* models.UserProfile(**user_profile.dict()): the payload's fields and a new id.
\* The requests drawn leave learning_style and experience_level absent.
NewUserProfile(id, user_profile) ==
    [id |-> id, user_id |-> user_profile.user_id,
     first_name |-> user_profile.first_name, goals |-> user_profile.goals]

\* POST /user_profiles/
create_user_profile ==
    \E user_id \in UserIds, first_name \in FirstNames :
        LET user_profile == [user_id |-> user_id, first_name |-> first_name,
                             goals |-> "None"]
        IN  /\ request' = [op |-> "create_user_profile", user_profile |-> user_profile]
            /\ IF ProfileOwner(user_id) = None
               THEN /\ response' = HTTPException(400, "User not found", {})
                    /\ UNCHANGED user_profiles
               ELSE /\ Len(user_profiles) < MaxProfiles
                    /\ LET db_user_profile ==
                               NewUserProfile(NextId(user_profiles), user_profile)
                       IN  /\ user_profiles' = Append(user_profiles, db_user_profile)
                           /\ response' = Returns(201, UserProfileOut(db_user_profile))
            /\ UNCHANGED <<users, courses, modules, lessons, returned>>
            /\ UNCHANGED <<sessions, analyzerVars>>

-----------------------------------------------------------------------------
(* The catalog side of the API. *)

\* models.Course(**course.dict())
NewCourse(id, course) ==
    [id |-> id, title |-> course.title, description |-> course.description,
     difficulty_level |-> course.difficulty_level,
     prerequisites |-> course.prerequisites]

\* The body shared by the two course routes: add, commit, refresh, return.
InsertCourse(op, course) ==
    /\ Len(courses) < MaxCourses
    /\ request' = [op |-> op, course |-> course]
    /\ LET db_course == NewCourse(NextId(courses), course)
       IN  /\ courses' = Append(courses, db_course)
           /\ response' = Returns(201, db_course)
    /\ UNCHANGED <<users, user_profiles, modules, lessons, returned>>
    /\ UNCHANGED <<sessions, analyzerVars>>

\* POST /courses/
create_course == \E course \in CoursePayloads : InsertCourse("create_course", course)

\* POST /courses
create_course_no_slash ==
    \E course \in CoursePayloads : InsertCourse("create_course_no_slash", course)

\* Page with limit read as the index of the last row instead of a count.
Page_LimitAsEnd(skip, limit) == SubSeq(courses, skip + 1, Min(Len(courses), limit))

\* query(Course).offset(skip).limit(limit).all() for skip >= 0 and limit >= 0:
\* the rows after the first skip, at most limit of them, in stored order.
Page(skip, limit) == SubSeq(courses, skip + 1, Min(Len(courses), skip + limit))

\* skip and limit are plain ints and reach the store unvalidated.  What a
\* negative OFFSET or LIMIT does is the engine's choice (the engine is set up
\* in app/database.py): it is refused, and the request ends 500, or it is read
\* the SQLite way (a negative OFFSET as 0, a negative LIMIT as no limit).
GetCoursesResponses(skip, limit) ==
    IF skip >= 0 /\ limit >= 0
    THEN {Returns(200, Page(skip, limit))}
    ELSE {HTTPException(500, "Internal Server Error", {}),
          Returns(200, Page(IF skip < 0 THEN 0 ELSE skip,
                            IF limit < 0 THEN Len(courses) ELSE limit))}

\* GET /courses
get_courses ==
    \E skip \in SkipValues, limit \in LimitValues :
        /\ request' = [op |-> "get_courses", skip |-> skip, limit |-> limit]
        /\ response' \in GetCoursesResponses(skip, limit)
        /\ UNCHANGED <<users, user_profiles, courses, modules, lessons, returned>>
        /\ UNCHANGED <<sessions, analyzerVars>>

\* ParentCourse that finds any stored course, whatever the id asked for.
ParentCourse_AnyCourse(course_id) == First(SelectSeq(courses, LAMBDA c : TRUE))

\* The existence check of create_module: the stored course with this id.
ParentCourse(course_id) == First(SelectSeq(courses, LAMBDA c : c.id = course_id))

\* models.Module(**module.dict())
NewModule(id, module) ==
    [id |-> id, course_id |-> module.course_id, title |-> module.title,
     description |-> module.description, order |-> module.order]

\* POST /modules/
create_module ==
    \E course_id \in CourseIds, order \in Orders :
        LET module == [title |-> "m", description |-> "d", order |-> order,
                       course_id |-> course_id]
        IN  /\ request' = [op |-> "create_module", module |-> module]
            /\ IF ParentCourse(course_id) = None
               THEN /\ response' = HTTPException(400, "Course not found", {})
                    /\ UNCHANGED modules
               ELSE /\ Len(modules) < MaxModules
                    /\ LET db_module == NewModule(NextId(modules), module)
                       IN  /\ modules' = Append(modules, db_module)
                           /\ response' = Returns(201, db_module)
            /\ UNCHANGED <<users, user_profiles, courses, lessons, returned>>
            /\ UNCHANGED <<sessions, analyzerVars>>

\* ParentModule that looks the id up among the courses.
ParentModule_InCourses(module_id) == First(SelectSeq(courses, LAMBDA c : c.id = module_id))

\* The existence check of create_lesson: the stored module with this id.
ParentModule(module_id) == First(SelectSeq(modules, LAMBDA m : m.id = module_id))

\* models.Lesson(**lesson.dict())
NewLesson(id, lesson) ==
    [id |-> id, module_id |-> lesson.module_id, title |-> lesson.title,
     content |-> lesson.content, order |-> lesson.order]

\* POST /lessons/
create_lesson ==
    \E module_id \in ModuleIds, order \in Orders :
        LET lesson == [title |-> "l", content |-> "c", order |-> order,
                       module_id |-> module_id]
        IN  /\ request' = [op |-> "create_lesson", lesson |-> lesson]
            /\ IF ParentModule(module_id) = None
               THEN /\ response' = HTTPException(400, "Module not found", {})
                    /\ UNCHANGED lessons
               ELSE /\ Len(lessons) < MaxLessons
                    /\ LET db_lesson == NewLesson(NextId(lessons), lesson)
                       IN  /\ lessons' = Append(lessons, db_lesson)
                           /\ response' = Returns(201, db_lesson)
            /\ UNCHANGED <<users, user_profiles, courses, modules, returned>>
            /\ UNCHANGED <<sessions, analyzerVars>>

-----------------------------------------------------------------------------
(* The create handlers run concurrently.                                   *)
(*                                                                         *)
(* The handlers are plain def functions, which the server runs in worker   *)
(* threads, each with the db session that get_db gives it.  A handler's    *)
(* query and its commit are separate statements on the store, so another   *)
(* handler's statement may come between them.  A commit is atomic: the     *)
(* store assigns the id and enforces the unique index on users.email.      *)

\* the requests in progress at the same time
Requests == {"r1", "r2"}

\* the parent ids that a concurrent request may name
ParentIds == {1, 2}

Idle == [op |-> "none", payload |-> None, pc |-> "idle", response |-> None]

\* the requests that a worker has received and not yet answered
InFlight == {r \in Requests : sessions[r].pc \in {"query", "commit"}}

Rows == Len(users) + Len(user_profiles) + Len(courses) + Len(modules) + Len(lessons)

\* the create requests a client may send
CreateRequests ==
    {[op |-> "create_user", payload |-> [email |-> e, password |-> "pw1"]] :
        e \in Emails}
    \cup
    {[op |-> "create_user_profile",
      payload |-> [user_id |-> u, first_name |-> "Ann", goals |-> "None"]] :
        u \in ParentIds}
    \cup
    {[op |-> o, payload |-> c] :
        o \in {"create_course", "create_course_no_slash"}, c \in CoursePayloads}
    \cup
    {[op |-> "create_module",
      payload |-> [title |-> "m", description |-> "d", order |-> 1, course_id |-> c]] :
        c \in ParentIds}
    \cup
    {[op |-> "create_lesson",
      payload |-> [title |-> "l", content |-> "c", order |-> 1, module_id |-> m]] :
        m \in ParentIds}

\* the handler's first statement: the course routes query nothing
FirstStep(op) ==
    IF op \in {"create_course", "create_course_no_slash"} THEN "commit" ELSE "query"

\* a worker thread takes a request and calls its handler
receive(r) ==
    /\ sessions[r].pc \in {"idle", "done"}
    /\ Rows + Cardinality(InFlight) < MaxRows
    /\ \E req \in CreateRequests :
           sessions' = [sessions EXCEPT ![r] =
                           [op |-> req.op, payload |-> req.payload,
                            pc |-> FirstStep(req.op), response |-> None]]
    /\ UNCHANGED <<users, user_profiles, courses, modules, lessons, request,
                   response, returned>>
    /\ UNCHANGED analyzerVars

\* the handler of r is at step pc of op
At(r, op, pc_) == sessions[r].op = op /\ sessions[r].pc = pc_

\* the handler goes on to its commit
Proceed(r) == sessions' = [sessions EXCEPT ![r].pc = "commit"]

\* the handler ends with this response
Respond(r, resp) == sessions' = [sessions EXCEPT ![r].pc = "done", ![r].response = resp]

\* an exception that no handler catches: the server answers 500
InternalServerError == HTTPException(500, "Internal Server Error", {})

\* email = Column(String, unique=True): the insert of a user is accepted
UniqueEmail(email) == \A i \in 1 .. Len(users) : users[i].email # email

\* create_user up to its raise: the lookup of the email
create_user_query(r) ==
    /\ At(r, "create_user", "query")
    /\ IF ExistingUser(sessions[r].payload.email) # None
       THEN Respond(r, HTTPException(400, "Email already registered", {}))
       ELSE Proceed(r)
    /\ UNCHANGED <<users, user_profiles, courses, modules, lessons, request,
                   response, returned>>
    /\ UNCHANGED analyzerVars

\* create_user from hash_password on: add, commit, refresh, return.  A commit
\* that the unique index rejects raises IntegrityError, which nothing catches.
create_user_commit(r) ==
    /\ At(r, "create_user", "commit")
    /\ LET user == sessions[r].payload
           db_user == NewUser(NextId(users), user.email, hash_password(user.password))
       IN  IF UniqueEmail(user.email)
           THEN /\ users' = Append(users, db_user)
                /\ Respond(r, Returns(201, UserOut(db_user)))
           ELSE /\ Respond(r, InternalServerError)
                /\ UNCHANGED users
    /\ UNCHANGED <<user_profiles, courses, modules, lessons, request, response,
                   returned>>
    /\ UNCHANGED analyzerVars

\* create_user_profile up to its raise: the lookup of the user
create_user_profile_query(r) ==
    /\ At(r, "create_user_profile", "query")
    /\ IF ProfileOwner(sessions[r].payload.user_id) = None
       THEN Respond(r, HTTPException(400, "User not found", {}))
       ELSE Proceed(r)
    /\ UNCHANGED <<users, user_profiles, courses, modules, lessons, request,
                   response, returned>>
    /\ UNCHANGED analyzerVars

\* create_user_profile from the construction of the row on
create_user_profile_commit(r) ==
    /\ At(r, "create_user_profile", "commit")
    /\ LET db_user_profile ==
               NewUserProfile(NextId(user_profiles), sessions[r].payload)
       IN  /\ user_profiles' = Append(user_profiles, db_user_profile)
           /\ Respond(r, Returns(201, UserProfileOut(db_user_profile)))
    /\ UNCHANGED <<users, courses, modules, lessons, request, response, returned>>
    /\ UNCHANGED analyzerVars

\* create_course and create_course_no_slash: add, commit, refresh, return
create_course_commit(r) ==
    /\ sessions[r].op \in {"create_course", "create_course_no_slash"}
    /\ sessions[r].pc = "commit"
    /\ LET db_course == NewCourse(NextId(courses), sessions[r].payload)
       IN  /\ courses' = Append(courses, db_course)
           /\ Respond(r, Returns(201, db_course))
    /\ UNCHANGED <<users, user_profiles, modules, lessons, request, response,
                   returned>>
    /\ UNCHANGED analyzerVars

\* create_module up to its raise: the lookup of the course
create_module_query(r) ==
    /\ At(r, "create_module", "query")
    /\ IF ParentCourse(sessions[r].payload.course_id) = None
       THEN Respond(r, HTTPException(400, "Course not found", {}))
       ELSE Proceed(r)
    /\ UNCHANGED <<users, user_profiles, courses, modules, lessons, request,
                   response, returned>>
    /\ UNCHANGED analyzerVars

\* create_module from the construction of the row on
create_module_commit(r) ==
    /\ At(r, "create_module", "commit")
    /\ LET db_module == NewModule(NextId(modules), sessions[r].payload)
       IN  /\ modules' = Append(modules, db_module)
           /\ Respond(r, Returns(201, db_module))
    /\ UNCHANGED <<users, user_profiles, courses, lessons, request, response,
                   returned>>
    /\ UNCHANGED analyzerVars

\* create_lesson up to its raise: the lookup of the module
create_lesson_query(r) ==
    /\ At(r, "create_lesson", "query")
    /\ IF ParentModule(sessions[r].payload.module_id) = None
       THEN Respond(r, HTTPException(400, "Module not found", {}))
       ELSE Proceed(r)
    /\ UNCHANGED <<users, user_profiles, courses, modules, lessons, request,
                   response, returned>>
    /\ UNCHANGED analyzerVars

\* create_lesson from the construction of the row on
create_lesson_commit(r) ==
    /\ At(r, "create_lesson", "commit")
    /\ LET db_lesson == NewLesson(NextId(lessons), sessions[r].payload)
       IN  /\ lessons' = Append(lessons, db_lesson)
           /\ Respond(r, Returns(201, db_lesson))
    /\ UNCHANGED <<users, user_profiles, courses, modules, request, response,
                   returned>>
    /\ UNCHANGED analyzerVars

-----------------------------------------------------------------------------
(* The analyzer: strings.                                                  *)
(*                                                                         *)
(* A string is a sequence of atoms.  "/", "." and "__pycache__" are atoms; *)
(* every other atom is a word that holds none of them, so the tests the    *)
(* code makes on characters (startswith('.'), '__pycache__' in root,       *)
(* splitext, startswith(expected + "/")) are tests on atoms.               *)

StartsWith(str, prefix) ==
    Len(str) >= Len(prefix) /\ SubSeq(str, 1, Len(prefix)) = prefix

EndsWith(str, suffix) ==
    Len(str) >= Len(suffix)
        /\ SubSeq(str, Len(str) - Len(suffix) + 1, Len(str)) = suffix

\* atom in str
Contains(str, atom) == \E i \in 1 .. Len(str) : str[i] = atom

\* os.path.join(a, b)
PathJoin(a, b) == a \o <<"/">> \o b

RECURSIVE JoinAll(_, _)
\* os.path.join(base, name1, name2, ...)
JoinAll(base, names) ==
    IF names = <<>> THEN base
    ELSE JoinAll(PathJoin(base, Head(names)), Tail(names))

\* os.path.splitext(file)[1]: from the last dot on, unless only dots precede it
splitext(file) ==
    LET dots == {i \in 1 .. Len(file) : file[i] = "."}
    IN  IF dots = {} THEN <<>>
        ELSE LET last == SetMax(dots)
             IN  IF \E j \in 1 .. last - 1 : file[j] # "."
                 THEN SubSeq(file, last, Len(file))
                 ELSE <<>>

-----------------------------------------------------------------------------
(* The analyzer: its tables. *)

Components ==
    <<"curriculum", "backend", "frontend", "ai_models", "voice", "agents",
      "deployment">>

EXPECTED_COMPONENTS ==
    [curriculum |-> << <<"curriculum", "_structure", ".", "json">>,
                       <<"learning_paths", ".", "json">> >>,
     backend    |-> << <<"main", ".", "py">>, <<"requirements", ".", "txt">>,
                       <<"models", ".", "py">>, <<"database", ".", "py">>,
                       <<"routers">> >>,
     frontend   |-> << <<"package", ".", "json">>, <<"src">>, <<"public">> >>,
     ai_models  |-> << <<"model_config", ".", "json">>, <<"fine_tuning">>,
                       <<"prompts">> >>,
     voice      |-> << <<"stt_config", ".", "json">>,
                       <<"tts_config", ".", "json">> >>,
     agents     |-> << <<"agent_config", ".", "json">>, <<"workflows">> >>,
     deployment |-> << <<"Dockerfile">>, <<"docker-compose", ".", "yml">>,
                       <<"k8s">> >>]

\* FILE_TYPES.get(ext, "Unknown")
FILE_TYPES(ext) ==
    CASE ext = <<".", "py">>   -> "Python"
      [] ext = <<".", "js">>   -> "JavaScript"
      [] ext = <<".", "jsx">>  -> "React"
      [] ext = <<".", "ts">>   -> "TypeScript"
      [] ext = <<".", "tsx">>  -> "React/TypeScript"
      [] ext = <<".", "json">> -> "JSON"
      [] ext = <<".", "html">> -> "HTML"
      [] ext = <<".", "css">>  -> "CSS"
      [] ext = <<".", "md">>   -> "Markdown"
      [] ext = <<".", "yml">>  -> "YAML"
      [] ext = <<".", "yaml">> -> "YAML"
      [] ext = <<".", "sql">>  -> "SQL"
      [] OTHER                 -> "Unknown"

-----------------------------------------------------------------------------
(* The analyzer: the directory trees it is run on.                         *)
(*                                                                         *)
(* A file of a tree has its directory (the names from the target root      *)
(* down), its name, whether os.path.getsize succeeds on it and the size,   *)
(* and what reading it gives: whether open/read/decode succeeds, how many  *)
(* matches each pattern of find_errors has in its text, the package names  *)
(* its text pins with a version operator, and what json.loads makes of it. *)

\* json.loads(content): it raises, or gives a value that is an object (a dict)
\* with its dependency tables, or gives some other value
InvalidJson ==
    [valid |-> FALSE, object |-> FALSE, dependencies |-> {}, devDependencies |-> {}]

JsonArray == [InvalidJson EXCEPT !.valid = TRUE]

Manifest(dependencies, devDependencies) ==
    [valid |-> TRUE, object |-> TRUE, dependencies |-> dependencies,
     devDependencies |-> devDependencies]

Text(py_todos, bare_excepts, console_logs, js_todos, credentials) ==
    [readable |-> TRUE, py_todos |-> py_todos, bare_excepts |-> bare_excepts,
     console_logs |-> console_logs, js_todos |-> js_todos,
     credentials |-> credentials, pins |-> {}, json |-> InvalidJson]

Plain == Text(0, 0, 0, 0, FALSE)

Undecodable == [Plain EXCEPT !.readable = FALSE]

File(dir, name, size, content) ==
    [dir |-> dir, name |-> name, stat_ok |-> TRUE, size |-> size,
     content |-> content]

\* an empty placeholder file
Stub(dir, name) == File(dir, name, 0, Plain)

\* The files a tree is drawn from, in the order os.walk meets them: the files
\* of the target root first, then each directory's.
FileUniverse ==
    << File(<<>>, <<".", "env">>, 40, Text(0, 0, 0, 0, TRUE)),
       File(<<>>, <<"main", ".", "py">>, 300, Text(0, 2, 0, 0, FALSE)),
       File(<<>>, <<"requirements", ".", "txt">>, 30,
            [Plain EXCEPT !.pins = {"flask", "sqlalchemy"}]),
       File(<<>>, <<"curriculum", "_structure", ".", "json">>, 10, Plain),
       File(<<>>, <<"learning_paths", ".", "json">>, 10, Plain),
       File(<<>>, <<"package", ".", "json">>, 90,
            [Plain EXCEPT !.json = Manifest({"next"}, {"react"})]),
       File(<<>>, <<"big", ".", "py">>, 1000000, Text(1, 0, 0, 0, FALSE)),
       File(<<>>, <<"huge", ".", "sql">>, 1000001, Text(0, 0, 0, 0, TRUE)),
       File(<<>>, <<"latin1", ".", "py">>, 20, Undecodable),
       [File(<<>>, <<"dangling", ".", "py">>, 0, Undecodable)
            EXCEPT !.stat_ok = FALSE],
       Stub(<<>>, <<"models", ".", "py">>),
       Stub(<<>>, <<"database", ".", "py">>),
       Stub(<<>>, <<"model_config", ".", "json">>),
       Stub(<<>>, <<"stt_config", ".", "json">>),
       Stub(<<>>, <<"tts_config", ".", "json">>),
       Stub(<<>>, <<"agent_config", ".", "json">>),
       File(<<>>, <<"Dockerfile">>, 120, Text(0, 0, 0, 0, TRUE)),
       Stub(<<>>, <<"docker-compose", ".", "yml">>),
       File(<< <<".", "git">> >>, <<"config">>, 50, Plain),
       File(<< <<"__pycache__">> >>, <<"main", ".", "pyc">>, 70, Plain),
       File(<< <<"backend">> >>, <<"main", ".", "py">>, 200,
            Text(1, 0, 0, 0, TRUE)),
       File(<< <<"backend">> >>, <<"requirements", ".", "txt">>, 30,
            [Plain EXCEPT !.pins = {"fastapi", "openai", "anthropic"}]),
       Stub(<< <<"fine_tuning">> >>, <<"data", ".", "json">>),
       Stub(<< <<"k8s">> >>, <<"deploy", ".", "yaml">>),
       File(<< <<"my", "__pycache__", "x">> >>, <<"notes", ".", "md">>, 5, Plain),
       Stub(<< <<"prompts">> >>, <<"tutor", ".", "md">>),
       Stub(<< <<"public">> >>, <<"index", ".", "html">>),
       File(<< <<"routers">> >>, <<"users", ".", "py">>, 80, Plain),
       File(<< <<"src">> >>, <<"app", ".", "js">>, 60, Text(0, 0, 3, 1, FALSE)),
       File(<< <<"web">> >>, <<"package", ".", "json">>, 15, Plain),
       Stub(<< <<"workflows">> >>, <<"flow", ".", "yml">>),
       File(<< <<"www">> >>, <<"package", ".", "json">>, 25,
            [Plain EXCEPT !.json = Manifest({"next"}, {})]) >>

\* The absolute paths a target root is drawn from.
ProjectRoots ==
    { <<"/", "home", "/", "dev", "/", "tutor">>,
      <<"/", "tmp", "/", "__pycache__", "/", "tutor">> }

RECURSIVE SubsetsUpTo(_, _)
\* the subsets of S of at most k members
SubsetsUpTo(S, k) ==
    IF k = 0 THEN {{}}
    ELSE LET smaller == SubsetsUpTo(S, k - 1)
         IN  smaller \cup {t \cup {x} : t \in smaller, x \in S}

RECURSIVE Ascending(_)
\* the members of a set of numbers as an increasing sequence
Ascending(set) ==
    IF set = {} THEN <<>>
    ELSE LET least == CHOOSE x \in set : \A y \in set : x <= y
         IN  <<least>> \o Ascending(set \ {least})

\* os.path.relpath(os.path.join(root, file), project_root)
RelPath(f) ==
    IF f.dir = <<>> THEN f.name
    ELSE JoinAll(Head(f.dir), Tail(f.dir) \o <<f.name>>)

\* path == expected or path.startswith(f"{expected}/")
Matches(path, expected) ==
    path = expected \/ StartsWith(path, expected \o <<"/">>)

\* The files that are no empty placeholders: small trees are made of them.
Varied ==
    {i \in 1 .. Len(FileUniverse) : FileUniverse[i] # Stub(FileUniverse[i].dir,
                                                           FileUniverse[i].name)}

\* The tree that holds, for each component of cs, a file for every entry the
\* component expects.
Scaffold(cs) ==
    {i \in 1 .. Len(FileUniverse) :
        \E c \in cs : \E k \in 1 .. Len(EXPECTED_COMPONENTS[c]) :
            Matches(RelPath(FileUniverse[i]), EXPECTED_COMPONENTS[c][k])}

\* The targets of a run: a path that is no directory, a directory holding at
\* most MaxFiles of the varied files, or a directory scaffolded for some of
\* the components that may hold one of the varied files too.
Projects ==
    {[root |-> r, is_dir |-> FALSE, tree |-> {}] : r \in ProjectRoots}
    \cup
    {[root |-> r, is_dir |-> TRUE, tree |-> t] :
        r \in ProjectRoots, t \in SubsetsUpTo(Varied, MaxFiles)}
    \cup
    {[root |-> r, is_dir |-> TRUE, tree |-> Scaffold(cs) \cup t] :
        r \in ProjectRoots,
        cs \in SUBSET {"curriculum", "backend", "frontend", "ai_models", "voice",
                       "agents", "deployment"},
        t \in SubsetsUpTo(Varied, 1)}

\* for root, _, files in os.walk(project_root): each file with its root
WalkEntry(proj, f) ==
    [root |-> JoinAll(proj.root, f.dir), file |-> f.name, rel_path |-> RelPath(f),
     stat_ok |-> f.stat_ok, size |-> f.size]

Walk(proj) ==
    LET order == Ascending(proj.tree)
    IN  [i \in 1 .. Len(order) |-> WalkEntry(proj, FileUniverse[order[i]])]

-----------------------------------------------------------------------------
(* The analyzer: the directory scan and the component-status pass. *)


\* isdir with the test left out: every target counts as a directory.
isdir_Unchecked(proj) == TRUE

\* os.path.isdir(self.project_root)
isdir(proj) == proj.is_dir

\* the test of scan_directory that leaves a file out
Skipped(root, file) == StartsWith(file, <<".">>) \/ Contains(root, "__pycache__")

RECURSIVE ScanFiles(_, _, _)
\* The loop of scan_directory from the i-th file of the walk on: the records
\* appended to self.files, and whether os.path.getsize raised.
ScanFiles(walk, i, acc) ==
    IF i > Len(walk) THEN [files |-> acc, raised |-> FALSE]
    ELSE LET e == walk[i]
         IN  IF Skipped(e.root, e.file) THEN ScanFiles(walk, i + 1, acc)
             ELSE IF ~e.stat_ok THEN [files |-> acc, raised |-> TRUE]
             ELSE ScanFiles(walk, i + 1,
                      Append(acc, [path |-> e.rel_path,
                                   type |-> FILE_TYPES(splitext(e.file)),
                                   size |-> e.size]))

\* self.file_counts after the loop
FileCounts(fs) ==
    [t \in {f.type : f \in Range(fs)} |->
        Cardinality({i \in 1 .. Len(fs) : fs[i].type = t})]

\* An exception that leaves run_analysis: main() reports it and returns 1.
Abort ==
    /\ pc' = "exit"
    /\ exit_status' = 1

scan_directory ==
    /\ pc = "scan_directory"
    /\ IF ~isdir(project)
       THEN /\ Abort
            /\ UNCHANGED <<files, file_counts>>
       ELSE LET scan == ScanFiles(Walk(project), 1, <<>>)
            IN  /\ files' = scan.files
                /\ file_counts' = FileCounts(scan.files)
                /\ IF scan.raised
                   THEN Abort
                   ELSE pc' = "analyze_component_status" /\ UNCHANGED exit_status
    /\ UNCHANGED <<project, component_status, errors, code_analysis, next_steps,
                   report>>
    /\ UNCHANGED apiVars

\* A percentage k / n * 100 as the fraction (k * 100) / n.
Percentage(k, n) == [num |-> k * 100, den |-> n]

PctEquals(pct, value) == pct.num = value * pct.den

PctLess(p, q) == p.num * q.den < q.num * p.den


\* StatusLabel that calls a component In Progress only from half way on.
StatusLabel_FromHalf(completion_pct) ==
    IF PctEquals(completion_pct, 100) THEN "Complete"
    ELSE IF completion_pct.num * 2 >= 100 * completion_pct.den THEN "In Progress"
    ELSE "Not Started"

StatusLabel(completion_pct) ==
    IF PctEquals(completion_pct, 100) THEN "Complete"
    ELSE IF completion_pct.num > 0 THEN "In Progress"
    ELSE "Not Started"

\* One round of the loop of analyze_component_status.  found_files is kept as
\* the set of paths found: the list's order is that of a Python set.
ComponentStatus(expected_files, file_paths) ==
    LET missing_files ==
            SelectSeq(expected_files,
                      LAMBDA expected :
                          ~\E path \in file_paths : Matches(path, expected))
        found_files ==
            {path \in file_paths :
                \E expected \in Range(expected_files) : Matches(path, expected)}
        total_expected == Len(expected_files)
        total_found == total_expected - Len(missing_files)
        completion_pct ==
            IF total_expected > 0 THEN Percentage(total_found, total_expected)
            ELSE Percentage(0, 1)
    IN  [status |-> StatusLabel(completion_pct),
         completion_percentage |-> completion_pct,
         found_files |-> found_files,
         missing_files |-> missing_files]

analyze_component_status ==
    /\ pc = "analyze_component_status"
    /\ LET file_paths == {f.path : f \in Range(files)}
       IN  component_status' =
               [component \in Range(Components) |->
                   ComponentStatus(EXPECTED_COMPONENTS[component], file_paths)]
    /\ pc' = "find_errors"
    /\ UNCHANGED <<project, files, file_counts, errors, code_analysis, next_steps,
                   report, exit_status>>
    /\ UNCHANGED apiVars

-----------------------------------------------------------------------------
(* The analyzer: the finding scan and the dependency pass. *)

LargeFileSize == 1000000

\* what open(os.path.join(project_root, path)).read() meets
ContentAt(proj, path) ==
    FileUniverse[CHOOSE i \in proj.tree : RelPath(FileUniverse[i]) = path].content

Finding(file, type, message) == [file |-> file, type |-> type, message |-> message]

\* the finding of an except Exception clause
AnalysisError(file) ==
    Finding(file, "Analysis Error", <<"Could not analyze file: ", "error">>)

JsTypes == {"JavaScript", "TypeScript", "React", "React/TypeScript"}

\* NotScanned that leaves out a file from the size limit on.
NotScanned_FromLimit(file_info) ==
    file_info.size >= LargeFileSize \/ file_info.type = "Unknown"

\* if file_info["size"] > 1000000 or file_type == "Unknown": continue
NotScanned(file_info) ==
    file_info.size > LargeFileSize \/ file_info.type = "Unknown"

\* The findings find_errors appends for one file.
FileFindings(file_info, content) ==
    IF NotScanned(file_info) THEN <<>>
    ELSE
      LET path == file_info.path
          python ==
              (IF content.py_todos > 0
               THEN <<Finding(path, "TODO",
                              <<"Found ", ToString(content.py_todos), " TODO comments">>)>>
               ELSE <<>>)
              \o
              (IF content.bare_excepts > 0
               THEN <<Finding(path, "Code Quality",
                        <<"Found bare except clause - should specify exception type">>)>>
               ELSE <<>>)
          javascript ==
              (IF content.console_logs > 0
               THEN <<Finding(path, "Development Code",
                        <<"Found ", ToString(content.console_logs),
                          " console.log statements">>)>>
               ELSE <<>>)
              \o
              (IF content.js_todos > 0
               THEN <<Finding(path, "TODO",
                              <<"Found ", ToString(content.js_todos), " TODO comments">>)>>
               ELSE <<>>)
          security ==
              IF content.credentials
              THEN <<Finding(path, "Security",
                             <<"Potential hardcoded credentials found">>)>>
              ELSE <<>>
      IN  IF ~content.readable THEN <<AnalysisError(path)>>
          ELSE (IF file_info.type = "Python" THEN python
                ELSE IF file_info.type \in JsTypes THEN javascript
                ELSE <<>>)
               \o security

RECURSIVE AllFindings(_, _, _)
AllFindings(proj, fs, i) ==
    IF i > Len(fs) THEN <<>>
    ELSE FileFindings(fs[i], ContentAt(proj, fs[i].path))
             \o AllFindings(proj, fs, i + 1)

find_errors ==
    /\ pc = "find_errors"
    /\ errors' = errors \o AllFindings(project, files, 1)
    /\ pc' = "analyze_code_structure"
    /\ UNCHANGED <<project, files, file_counts, component_status, code_analysis,
                   next_steps, report, exit_status>>
    /\ UNCHANGED apiVars

backend_frameworks == <<"fastapi", "flask", "django">>
database_technologies == <<"sqlalchemy", "postgresql", "mongodb">>
ai_libraries == <<"langchain", "autogen", "crewai", "openai", "anthropic">>

REQUIREMENTS_TXT == <<"requirements", ".", "txt">>
PACKAGE_JSON == <<"package", ".", "json">>

\* What the loop of analyze_code_structure does with one manifest: the names
\* it marks, the findings it appends, and the frontend framework it stores
\* (a sequence of at most one value).
NothingFound == [marked |-> {}, findings |-> <<>>, frontend |-> <<>>]

\* "React" if has_react else "Next.js" if has_nextjs else "Unknown"
FrontendFramework(dependencies) ==
    IF "react" \in dependencies THEN "React"
    ELSE IF "next" \in dependencies THEN "Next.js"
    ELSE "Unknown"

ManifestResult(file_path, path, content) ==
    IF ~content.readable
    THEN [NothingFound EXCEPT !.findings = <<AnalysisError(path)>>]
    ELSE IF EndsWith(file_path, REQUIREMENTS_TXT)
    THEN [NothingFound EXCEPT !.marked = content.pins]
    ELSE IF EndsWith(file_path, PACKAGE_JSON)
    THEN IF ~content.json.valid
         THEN [NothingFound EXCEPT !.findings =
                  <<Finding(path, "Parse Error", <<"Invalid JSON in package.json">>)>>]
         ELSE IF ~content.json.object
         THEN [NothingFound EXCEPT !.findings = <<AnalysisError(path)>>]
         ELSE [NothingFound EXCEPT !.frontend =
                  <<FrontendFramework(content.json.dependencies
                                          \cup content.json.devDependencies)>>]
    ELSE NothingFound

\* the marks, findings and frontend framework so far, and one more manifest's
Accumulate(acc, r) ==
    [marked |-> acc.marked \cup r.marked,
     findings |-> acc.findings \o r.findings,
     frontend |-> IF r.frontend # <<>> THEN r.frontend ELSE acc.frontend]

RECURSIVE ManifestLoop(_, _, _, _)
ManifestLoop(proj, req_files, i, acc) ==
    IF i > Len(req_files) THEN acc
    ELSE ManifestLoop(proj, req_files, i + 1,
             Accumulate(acc, ManifestResult(PathJoin(proj.root, req_files[i].path),
                                            req_files[i].path,
                                            ContentAt(proj, req_files[i].path))))

\* next((k for k, v in table.items() if v), "Unknown")
FirstMarked(table, marked) ==
    LET hits == SelectSeq(table, LAMBDA k : k \in marked)
    IN  IF hits = <<>> THEN "Unknown" ELSE hits[1]

analyze_code_structure ==
    /\ pc = "analyze_code_structure"
    /\ LET req_files ==
               SelectSeq(files, LAMBDA f : \/ EndsWith(f.path, REQUIREMENTS_TXT)
                                           \/ EndsWith(f.path, PACKAGE_JSON))
           loop == ManifestLoop(project, req_files, 1, NothingFound)
           stored ==
               [backend_framework |-> FirstMarked(backend_frameworks, loop.marked),
                database_technology |->
                    FirstMarked(database_technologies, loop.marked),
                ai_libraries |-> SelectSeq(ai_libraries, LAMBDA k : k \in loop.marked)]
       IN  /\ errors' = errors \o loop.findings
           /\ code_analysis' =
                  IF loop.frontend # <<>>
                  THEN [frontend_framework |-> loop.frontend[1]] @@ stored
                  ELSE stored
    /\ pc' = "generate_next_steps"
    /\ UNCHANGED <<project, files, file_counts, component_status, next_steps,
                   report, exit_status>>
    /\ UNCHANGED apiVars

-----------------------------------------------------------------------------
(* The analyzer: the next steps, the prompt and the report. *)

RECURSIVE InsertByPct(_, _, _)
\* component put into a sequence sorted by percentage, behind its equals
InsertByPct(component, sorted, status) ==
    IF sorted = <<>> THEN <<component>>
    ELSE IF PctLess(status[component].completion_percentage,
                    status[Head(sorted)].completion_percentage)
         THEN <<component>> \o sorted
         ELSE <<Head(sorted)>> \o InsertByPct(component, Tail(sorted), status)

\* SortedByPct with the sort left out: the components in the table's order.
SortedByPct_TableOrder(components, status) == components

RECURSIVE SortedByPct(_, _)
\* sorted(component_status.items(), key=completion_percentage): a stable sort
\* of the components in the order of the table
SortedByPct(components, status) ==
    IF components = <<>> THEN <<>>
    ELSE InsertByPct(components[Len(components)],
                     SortedByPct(SubSeq(components, 1, Len(components) - 1), status),
                     status)

\* f"{pct:.1f}%": the percentage rounded to tenths
Format1(pct) ==
    LET tenths == (2 * 10 * pct.num + pct.den) \div (2 * pct.den)
    IN  <<tenths \div 10, ".", tenths % 10, "%">>

\* seq[:n]
Take(seq, n) == SubSeq(seq, 1, Min(n, Len(seq)))

RECURSIVE Flatten(_)
\* the sequences of a sequence, one after the other
Flatten(seqs) == IF seqs = <<>> THEN <<>> ELSE Head(seqs) \o Flatten(Tail(seqs))

RECURSIVE JoinComma(_)
\* ', '.join(strings)
JoinComma(strings) ==
    IF strings = <<>> THEN <<>>
    ELSE IF Len(strings) = 1 THEN <<strings[1]>>
    ELSE <<strings[1], ", ">> \o JoinComma(Tail(strings))

\* dict.get(key, default)
Get(dict, key, default) == IF key \in DOMAIN dict THEN dict[key] ELSE default

CountStatus(status, label) ==
    Cardinality({c \in DOMAIN status : status[c].status = label})

\* _generate_claude_prompt: the prompt, section by section
_generate_claude_prompt(priority_components, recommended_tasks) ==
    [total_components |-> Cardinality(DOMAIN component_status),
     completed |-> CountStatus(component_status, "Complete"),
     in_progress |-> CountStatus(component_status, "In Progress"),
     not_started |-> CountStatus(component_status, "Not Started"),
     backend |-> Get(code_analysis, "backend_framework", "Unknown"),
     database |-> Get(code_analysis, "database_technology", "Unknown"),
     frontend |-> Get(code_analysis, "frontend_framework", "Unknown"),
     ai_libraries |->
         JoinComma(Get(code_analysis, "ai_libraries", <<"None detected">>)),
     priority_components |->
         [i \in 1 .. Len(priority_components) |->
             [component |-> priority_components[i].component,
              completion |-> priority_components[i].completion]],
     recommended_tasks |->
         [i \in 1 .. Len(recommended_tasks) |-> <<i, recommended_tasks[i]>>],
     request |->
         IF priority_components # <<>>
         THEN LET top_priority == priority_components[1].component
              IN  [top_priority |-> <<top_priority>>,
                   tasks |-> Take(SelectSeq(recommended_tasks,
                                     LAMBDA task : Contains(task, top_priority)), 3)]
         ELSE [top_priority |-> <<>>, tasks |-> <<>>]]

generate_next_steps ==
    /\ pc = "generate_next_steps"
    /\ LET least_developed == SortedByPct(Components, component_status)
           chosen ==
               SelectSeq(Take(least_developed, 3),
                   LAMBDA c : PctLess(component_status[c].completion_percentage,
                                      Percentage(1, 1)))
           priority_components ==
               [i \in 1 .. Len(chosen) |->
                   [component |-> chosen[i],
                    status |-> component_status[chosen[i]].status,
                    completion |->
                        Format1(component_status[chosen[i]].completion_percentage)]]
           create_tasks ==
               Flatten([i \in 1 .. Len(chosen) |->
                   LET missing == Take(component_status[chosen[i]].missing_files, 3)
                   IN  [j \in 1 .. Len(missing) |->
                           <<"Create ", chosen[i], "/">> \o missing[j]]])
           shown == Take(errors, 5)
           fix_tasks ==
               [i \in 1 .. Len(shown) |->
                   <<"Fix ", shown[i].type, " in ">> \o shown[i].file
                       \o <<": ">> \o shown[i].message]
           recommended_tasks == create_tasks \o fix_tasks
       IN  next_steps' =
               [priority_components |-> priority_components,
                recommended_tasks |-> recommended_tasks,
                claude_prompt |->
                    _generate_claude_prompt(priority_components, recommended_tasks)]
    /\ pc' = "write_report"
    /\ UNCHANGED <<project, files, file_counts, component_status, errors,
                   code_analysis, report, exit_status>>
    /\ UNCHANGED apiVars

\* The end of run_analysis and of main(): the results are gathered, printed
\* and saved to the output file, and main() returns 0.
write_report ==
    /\ pc = "write_report"
    /\ report' = [project_root |-> project.root,
                  file_count |-> Len(files),
                  file_types |-> file_counts,
                  component_status |-> component_status,
                  errors |-> errors,
                  code_analysis |-> code_analysis,
                  next_steps |-> next_steps]
    /\ pc' = "exit"
    /\ exit_status' = 0
    /\ UNCHANGED <<project, files, file_counts, component_status, errors,
                   code_analysis, next_steps>>
    /\ UNCHANGED apiVars

\* ProjectAnalyzer.__init__ on a target, before run_analysis
AnalyzerInit ==
    /\ project \in Projects
    /\ pc = "scan_directory"
    /\ files = <<>>
    /\ file_counts = <<>>
    /\ component_status = <<>>
    /\ errors = <<>>
    /\ code_analysis = <<>>
    /\ next_steps = None
    /\ report = None
    /\ exit_status = None

\* no analyzer is run
AnalyzerIdle ==
    /\ project = [root |-> <<>>, is_dir |-> FALSE, tree |-> {}]
    /\ pc = "idle"
    /\ files = <<>>
    /\ file_counts = <<>>
    /\ component_status = <<>>
    /\ errors = <<>>
    /\ code_analysis = <<>>
    /\ next_steps = None
    /\ report = None
    /\ exit_status = None

AnalyzerNext ==
    \/ scan_directory
    \/ analyze_component_status
    \/ find_errors
    \/ analyze_code_structure
    \/ generate_next_steps
    \/ write_report

-----------------------------------------------------------------------------
(* Specifications of the API. *)

NoRequest == [op |-> "none"]

ApiInit ==
    /\ users = <<>>
    /\ user_profiles = <<>>
    /\ courses = <<>>
    /\ modules = <<>>
    /\ lessons = <<>>
    /\ request = NoRequest
    /\ response = Returns(0, None)
    /\ returned = {}
    /\ sessions = [r \in Requests |-> Idle]

Init == ApiInit /\ AnalyzerIdle

Next ==
    \/ login_for_access_token
    \/ create_user
    \/ read_user
    \/ create_user_profile

Spec == Init /\ [][Next]_vars

CatalogNext ==
    \/ create_course
    \/ create_course_no_slash
    \/ get_courses
    \/ create_module
    \/ create_lesson

CatalogSpec == Init /\ [][CatalogNext]_vars

ConcurrentNext ==
    \E r \in Requests :
        \/ receive(r)
        \/ create_user_query(r)
        \/ create_user_commit(r)
        \/ create_user_profile_query(r)
        \/ create_user_profile_commit(r)
        \/ create_course_commit(r)
        \/ create_module_query(r)
        \/ create_module_commit(r)
        \/ create_lesson_query(r)
        \/ create_lesson_commit(r)

ConcurrentSpec == Init /\ [][ConcurrentNext]_vars

\* main() is started on a target; the API serves nothing
AnalyzerStart == ApiInit /\ AnalyzerInit

AnalyzerSpec == AnalyzerStart /\ [][AnalyzerNext]_vars

-----------------------------------------------------------------------------
(* Properties of the account side, checked under Spec. *)

TablesUnchanged ==
    UNCHANGED <<users, user_profiles, courses, modules, lessons>>

EmailStored(email) == \E u \in Range(users) : u.email = email

\* What a create-user request must do in one step.
C1_CreateUserStep ==
    request'.op = "create_user" =>
        IF EmailStored(request'.email)
        THEN /\ response' = HTTPException(400, "Email already registered", {})
             /\ users' = users
        ELSE /\ response'.status = 201
             /\ Len(users') = Len(users) + 1
             /\ SubSeq(users', 1, Len(users)) = users
             /\ users'[Len(users')].email = request'.email
             /\ users'[Len(users')].id = response'.body.id
             /\ response'.body.email = request'.email
             /\ response'.body.is_active = TRUE

\* What a read-user-by-id of an id a create-user returned must answer.
C1_ReadReturned ==
    request.op = "read_user" =>
        \A p \in returned :
            p[1] = request.user_id =>
                /\ response.status = 200
                /\ response.body.email = p[2]
                /\ response.body.is_active = TRUE

\* C1: a create-user request with an email that is already stored fails with
\* 400 'Email already registered' and leaves the user rows unchanged; with a
\* fresh email it succeeds and adds exactly one user row; and every later
\* read-user-by-id of a returned id answers that email with is_active = true.
C1_CreateUserThenRead == [][C1_CreateUserStep]_vars /\ []C1_ReadReturned

\* C1 witness: two users were created and the second one's returned id is read.
C1_Witness ==
    /\ request.op = "read_user"
    /\ Len(users) = 2
    /\ request.user_id = 2
    /\ \E p \in returned : p[1] = 2
    /\ response.status = 200

\* C2: no two profile rows have the same user_id.
C2_AtMostOneProfilePerUser ==
    \A i, j \in 1 .. Len(user_profiles) :
        user_profiles[i].user_id = user_profiles[j].user_id => i = j

\* What a create-user-profile request must do in one step.
C3_CreateProfileStep ==
    request'.op = "create_user_profile" =>
        IF \E u \in Range(users) : u.id = request'.user_profile.user_id
        THEN /\ response'.status = 201
             /\ Len(user_profiles') = Len(user_profiles) + 1
             /\ SubSeq(user_profiles', 1, Len(user_profiles)) = user_profiles
             /\ user_profiles'[Len(user_profiles')].user_id
                    = request'.user_profile.user_id
             /\ response'.body.user_id = request'.user_profile.user_id
        ELSE /\ response' = HTTPException(400, "User not found", {})
             /\ user_profiles' = user_profiles

Unauthorized ==
    [status |-> 401, detail |-> "Incorrect username or password",
     headers |-> {<<"WWW-Authenticate", "Bearer">>}, body |-> None]

CredentialsValid(username, password) ==
    \E u \in Range(users) :
        u.email = username /\ verify_password(password, u.hashed_password)

C6_LoginOutcome ==
    request.op = "login_for_access_token" =>
        IF CredentialsValid(request.username, request.password)
        THEN /\ response.status = 200
             /\ response.body.access_token.sub = request.username
        ELSE response = Unauthorized

C6_LoginStep ==
    request'.op = "login_for_access_token" => TablesUnchanged

\* C6: a token is issued only when the email is a stored user's and the
\* password verifies against that user's hash; an unknown email and a wrong
\* password get the same response (401, same detail, same challenge header);
\* and no login request changes stored state.
C6_LoginIndistinguishable == []C6_LoginOutcome /\ [][C6_LoginStep]_vars

\* C6 witness: a login with a stored email and a wrong password was refused.
C6_Witness ==
    /\ request.op = "login_for_access_token"
    /\ EmailStored(request.username)
    /\ ~CredentialsValid(request.username, request.password)
    /\ response.status = 401

-----------------------------------------------------------------------------
(* Properties of the catalog side, checked under CatalogSpec. *)

C4_CreateModuleStep ==
    request'.op = "create_module" =>
        IF \E c \in Range(courses) : c.id = request'.module.course_id
        THEN /\ response'.status = 201
             /\ modules' = Append(modules, response'.body)
             /\ response'.body.course_id = request'.module.course_id
        ELSE /\ response' = HTTPException(400, "Course not found", {})
             /\ modules' = modules

C4_CreateLessonStep ==
    request'.op = "create_lesson" =>
        IF \E m \in Range(modules) : m.id = request'.lesson.module_id
        THEN /\ response'.status = 201
             /\ lessons' = Append(lessons, response'.body)
             /\ response'.body.module_id = request'.lesson.module_id
        ELSE /\ response' = HTTPException(400, "Module not found", {})
             /\ lessons' = lessons

\* C4: create-module with a course_id of no stored course fails with 'Course
\* not found', create-lesson with a module_id of no stored module fails with
\* 'Module not found', and neither adds a row; when the parent exists each
\* succeeds, adds the child, and the child's parent id is the request's.
C4_CreateChild == [][C4_CreateModuleStep /\ C4_CreateLessonStep]_vars

\* C4 witness: a lesson was just created under a stored module.
C4_Witness ==
    /\ request.op = "create_lesson"
    /\ response.status = 201
    /\ Len(lessons) = 1
    /\ Len(modules) = 1
    /\ lessons[1].module_id = modules[1].id

\* The courses in the order of their creation are the table's rows: ids are
\* handed out in increasing order.
CreatedInOrder == \A i \in 1 .. Len(courses) : courses[i].id = i

\* The page the claim describes: starts at the (skip+1)-th created course and
\* holds the courses after it in order, up to limit of them.
IsPage(body, skip, limit) ==
    /\ \A i \in 1 .. Len(body) :
           skip + i \in 1 .. Len(courses) /\ body[i] = courses[skip + i]
    /\ Len(body) <= limit
    /\ Len(body) = limit \/ skip + Len(body) >= Len(courses)

\* C5 as claimed: list-courses returns the page for every skip and limit: the
\* result starts at the (skip+1)-th created course and never holds more than
\* limit courses.
C5_AnySkipAndLimit ==
    (request.op = "get_courses" /\ response.status = 200) =>
        /\ CreatedInOrder
        /\ IsPage(response.body, request.skip, request.limit)

\* C5 amended: for skip >= 0 and limit >= 0, list-courses succeeds and returns
\* the courses in insertion order starting at the (skip+1)-th: none when there
\* are none, all N for skip = 0 and limit = 100, never more than limit.
C5_ListCourses ==
    (request.op = "get_courses" /\ request.skip >= 0 /\ request.limit >= 0) =>
        /\ response.status = 200
        /\ CreatedInOrder
        /\ IsPage(response.body, request.skip, request.limit)
        /\ courses = <<>> => response.body = <<>>
        /\ (request.skip = 0 /\ request.limit = DefaultLimit)
               => response.body = courses

\* C5 witness: with two courses stored, skip = 1 and limit = 1 returned the
\* second one alone.
C5_Witness ==
    /\ request.op = "get_courses"
    /\ request.skip = 1
    /\ request.limit = 1
    /\ Len(courses) = 2
    /\ response.status = 200
    /\ Len(response.body) = 1
    /\ response.body[1].id = 2

-----------------------------------------------------------------------------
(* Properties of the analyzer, checked under AnalyzerSpec. *)

\* the relative paths of the files under the target directory
TreePaths == {RelPath(FileUniverse[i]) : i \in project.tree}

\* the component-status pass has run
StatusAnalyzed == DOMAIN component_status # {}

\* C7: for a target directory whose only files are backend/main.py and
\* backend/requirements.txt, the backend component gets completion percentage
\* 40.0, status 'In Progress', and the missing list models.py, database.py,
\* routers.
C7_BackendTwoOfFive ==
    (/\ StatusAnalyzed
     /\ TreePaths = { <<"backend", "/", "main", ".", "py">>,
                      <<"backend", "/", "requirements", ".", "txt">> })
        => /\ component_status["backend"].completion_percentage.num
                  = 40 * component_status["backend"].completion_percentage.den
           /\ component_status["backend"].status = "In Progress"
           /\ component_status["backend"].missing_files
                  = << <<"models", ".", "py">>, <<"database", ".", "py">>,
                       <<"routers">> >>

StatusMatchesPercentage(s) ==
    LET num == s.completion_percentage.num
        den == s.completion_percentage.den
    IN  /\ den > 0
        /\ s.status \in {"Complete", "In Progress", "Not Started"}
        /\ s.status = "Complete" <=> num = 100 * den
        /\ s.status = "In Progress" <=> (0 < num /\ num < 100 * den)
        /\ s.status = "Not Started" <=> num = 0

\* C8: once the component-status pass has run, each of the 7 expected
\* components has exactly one status, Complete when its percentage is 100, In
\* Progress when it is between 0 and 100, Not Started when it is 0; and the
\* Complete, In Progress and Not Started counts of the generated prompt sum to 7.
C8_StatusCountsSumToSeven ==
    /\ StatusAnalyzed =>
          /\ DOMAIN component_status = Range(Components)
          /\ Cardinality(DOMAIN component_status) = 7
          /\ \A c \in DOMAIN component_status :
                 StatusMatchesPercentage(component_status[c])
    /\ next_steps # None =>
          /\ next_steps.claude_prompt.total_components = 7
          /\ next_steps.claude_prompt.completed
                 + next_steps.claude_prompt.in_progress
                 + next_steps.claude_prompt.not_started = 7

\* C8 witness: a finished run whose prompt counts a Complete, an In Progress
\* and a Not Started component.
C8_Witness ==
    /\ pc = "exit"
    /\ report # None
    /\ next_steps.claude_prompt.completed >= 1
    /\ next_steps.claude_prompt.in_progress >= 1
    /\ next_steps.claude_prompt.not_started >= 1

\* C9: when the target directory does not exist, the run ends in the directory
\* scan: no analysis pass has run, no report is written, and main() returns 1.
C9_MissingDirectoryAborts ==
    (~project.is_dir /\ pc # "scan_directory") =>
        /\ pc = "exit"
        /\ exit_status = 1
        /\ report = None
        /\ files = <<>>
        /\ ~StatusAnalyzed
        /\ errors = <<>>
        /\ DOMAIN code_analysis = {}
        /\ next_steps = None

\* C9 witness: main() has returned for a target that is no directory.
C9_Witness ==
    /\ ~project.is_dir
    /\ pc = "exit"
    /\ exit_status = 1

\* a file the claim says the scan leaves out: its own name begins with '.', or
\* it lies under a directory whose name begins with '.' or is __pycache__
Excluded(f) ==
    \/ f.name[1] = "."
    \/ \E k \in 1 .. Len(f.dir) : f.dir[k][1] = "."
    \/ \E k \in 1 .. Len(f.dir) : f.dir[k] = <<"__pycache__">>

\* C10: a scan that ran to its end recorded no file whose name begins with
\* '.', none under a directory whose name begins with '.', none under a
\* directory named __pycache__, and every other file under the target exactly
\* once.
C10_ScanRecordsAllButExcluded ==
    pc = "analyze_component_status" =>
        /\ {f.path : f \in Range(files)}
               = {RelPath(FileUniverse[i]) :
                      i \in {j \in project.tree : ~Excluded(FileUniverse[j])}}
        /\ \A i, j \in 1 .. Len(files) : files[i].path = files[j].path => i = j

\* C11: the AI Libraries line of the generated prompt shows the detected AI
\* library names joined by commas, and 'None detected' when the run detected
\* no AI library.
C11_AiLibrariesLine ==
    next_steps # None =>
        next_steps.claude_prompt.ai_libraries
            = IF code_analysis.ai_libraries = <<>> THEN <<"None detected">>
              ELSE JoinComma(code_analysis.ai_libraries)

\* the dependency pass has run
StructureAnalyzed == "backend_framework" \in DOMAIN code_analysis

\* the dependencies and dev-dependencies that the discovered package.json
\* files declare
DeclaredDependencies ==
    UNION {ContentAt(project, f.path).json.dependencies
               \cup ContentAt(project, f.path).json.devDependencies :
           f \in {g \in Range(files) :
                     /\ EndsWith(g.path, PACKAGE_JSON)
                     /\ ContentAt(project, g.path).readable
                     /\ ContentAt(project, g.path).json.object}}

\* C12: after the dependency pass the code-analysis summary always carries a
\* frontend framework: 'React' if a discovered package.json declares react,
\* else 'Next.js' if one declares next, else 'Unknown' (also when there is no
\* package.json or it does not parse).
C12_FrontendAlwaysRecorded ==
    StructureAnalyzed =>
        /\ "frontend_framework" \in DOMAIN code_analysis
        /\ code_analysis["frontend_framework"]
               = IF "react" \in DeclaredDependencies THEN "React"
                 ELSE IF "next" \in DeclaredDependencies THEN "Next.js"
                 ELSE "Unknown"

\* the components listed as priority components, in the order listed
Listed ==
    [i \in 1 .. Len(next_steps.priority_components) |->
        next_steps.priority_components[i].component]

\* the completion percentage of a component
Pct(c) == component_status[c].completion_percentage

BelowHundred(c) == Pct(c).num < 100 * Pct(c).den

\* C13: the next steps list at most three priority components, each below 100,
\* in ascending order of completion percentage, and they are the first (up to
\* three) components below 100 in that order: no component left out has a
\* strictly lower percentage than a listed one, and a component below 100 is
\* left out only when three are listed.
C13_PriorityComponents ==
    next_steps # None =>
        /\ Len(Listed) <= 3
        /\ \A i \in 1 .. Len(Listed) :
               /\ Listed[i] \in Range(Components)
               /\ BelowHundred(Listed[i])
               /\ next_steps.priority_components[i].status
                      = component_status[Listed[i]].status
        /\ \A i, j \in 1 .. Len(Listed) :
               /\ i < j => Pct(Listed[j]).num * Pct(Listed[i]).den
                               >= Pct(Listed[i]).num * Pct(Listed[j]).den
               /\ Listed[i] = Listed[j] => i = j
        /\ \A c \in Range(Components) \ Range(Listed) :
               /\ \A i \in 1 .. Len(Listed) :
                      Pct(c).num * Pct(Listed[i]).den
                          >= Pct(Listed[i]).num * Pct(c).den
               /\ BelowHundred(c) => Len(Listed) = 3

\* C13 witness: a finished run that lists two priority components with
\* different percentages, the first three of the ascending order holding a
\* complete component.
C13_Witness ==
    /\ pc = "exit"
    /\ report # None
    /\ Len(Listed) = 2
    /\ Pct(Listed[1]).num = 0
    /\ Pct(Listed[2]).num > 0
    /\ \E c \in Range(Components) : ~BelowHundred(c)

\* C14: a failure on a single file (it cannot be sized, opened, read or
\* decoded) is recorded as a finding and never aborts the run: whenever the
\* target directory exists the run ends with all passes done and the report
\* written.
C14_FileFailureNeverAborts ==
    (project.is_dir /\ pc = "exit") =>
        /\ exit_status = 0
        /\ report # None
        /\ StatusAnalyzed
        /\ StructureAnalyzed
        /\ \A i \in project.tree :
               (~FileUniverse[i].stat_ok /\ ~Excluded(FileUniverse[i])) =>
                   \E k \in 1 .. Len(errors) :
                       errors[k].file = RelPath(FileUniverse[i])

\* the finding scan has just run: errors holds its findings and no others
ErrorsScanned == pc = "analyze_code_structure"

\* the finding scan recorded a finding for the file
HasFinding(f) == \E k \in 1 .. Len(errors) : errors[k].file = f.path

\* reading and pattern-checking the file gives a finding: it cannot be read or
\* decoded, or its text matches a pattern that is looked for in its type
GivesFinding(f) ==
    LET content == ContentAt(project, f.path)
    IN  \/ ~content.readable
        \/ content.credentials
        \/ f.type = "Python" /\ (content.py_todos > 0 \/ content.bare_excepts > 0)
        \/ /\ f.type \in {"JavaScript", "TypeScript", "React", "React/TypeScript"}
           /\ (content.console_logs > 0 \/ content.js_todos > 0)

\* C15 as stated: the finding scan reads and pattern-checks a discovered file
\* if and only if its size is under 1,000,000 bytes and its type is not
\* Unknown; a file of exactly 1,000,000 bytes is skipped and yields no finding.
C15_ScannedIffUnderLimit ==
    ErrorsScanned =>
        \A f \in Range(files) :
            HasFinding(f) <=>
                (GivesFinding(f) /\ f.size < 1000000 /\ f.type # "Unknown")

\* C15 as amended: the finding scan reads and pattern-checks a discovered file
\* if and only if its size is at most 1,000,000 bytes and its type is not
\* Unknown; a file of exactly 1,000,000 bytes is read, one of 1,000,001 bytes
\* is skipped.
C15_ScannedIffAtMostLimit ==
    ErrorsScanned =>
        \A f \in Range(files) :
            HasFinding(f) <=>
                (GivesFinding(f) /\ f.size <= 1000000 /\ f.type # "Unknown")

\* C15 witness: the scan has run over a file of exactly 1,000,000 bytes and
\* recorded a finding for it, and over a larger file whose text matches a
\* pattern and recorded none.
C15_Witness ==
    /\ ErrorsScanned
    /\ \E f \in Range(files) : f.size = 1000000 /\ HasFinding(f)
    /\ \E f \in Range(files) :
           f.size > 1000000 /\ GivesFinding(f) /\ f.type # "Unknown" /\ ~HasFinding(f)

-----------------------------------------------------------------------------
(* Properties of the concurrent handlers, checked under ConcurrentSpec. *)

\* r's create-user request has been answered with the created user
AnsweredCreated(r) ==
    /\ sessions[r].response.status = 201
    /\ \E i \in 1 .. Len(users) :
           /\ users[i].email = sessions[r].payload.email
           /\ sessions[r].response.body = UserOut(users[i])

\* r's create-user request has been answered 400 'Email already registered'
AnsweredRegistered(r) ==
    /\ sessions[r].response.status = 400
    /\ sessions[r].response.detail = "Email already registered"

\* C16: when two create-user requests with the same email are handled
\* concurrently, however their lookups and commits interleave, no state holds
\* two user rows with that email, and of the two answers one is the created
\* user and the other the 400 'Email already registered': never two created
\* users, never another answer.
C16_ConcurrentCreateUser ==
    /\ \A i, j \in 1 .. Len(users) : users[i].email = users[j].email => i = j
    /\ \A r, s \in Requests :
           (/\ r # s
            /\ At(r, "create_user", "done")
            /\ At(s, "create_user", "done")
            /\ sessions[r].payload.email = sessions[s].payload.email)
               => /\ AnsweredCreated(r) \/ AnsweredRegistered(r)
                  /\ AnsweredCreated(s) \/ AnsweredRegistered(s)
                  /\ ~(AnsweredCreated(r) /\ AnsweredCreated(s))

Ids(table) == {table[i].id : i \in 1 .. Len(table)}

DistinctIds(table) ==
    \A i, j \in 1 .. Len(table) : table[i].id = table[j].id => i = j

\* every row of the table is still there in the next state, with its id
RowsKept(table, next) ==
    /\ Len(next) >= Len(table)
    /\ \A i \in 1 .. Len(table) : next[i] = table[i]

ReferentialIntegrity ==
    /\ \A i \in 1 .. Len(user_profiles) : user_profiles[i].user_id \in Ids(users)
    /\ \A i \in 1 .. Len(modules) : modules[i].course_id \in Ids(courses)
    /\ \A i \in 1 .. Len(lessons) : lessons[i].module_id \in Ids(modules)
    /\ DistinctIds(users)
    /\ DistinctIds(user_profiles)
    /\ DistinctIds(courses)
    /\ DistinctIds(modules)
    /\ DistinctIds(lessons)

NoRowRemoved ==
    /\ RowsKept(users, users')
    /\ RowsKept(user_profiles, user_profiles')
    /\ RowsKept(courses, courses')
    /\ RowsKept(modules, modules')
    /\ RowsKept(lessons, lessons')

\* C17: in every state reachable by any interleaving of the create operations,
\* every profile's user_id is the id of a stored user, every module's
\* course_id the id of a stored course and every lesson's module_id the id of
\* a stored module; the ids of a table are pairwise distinct; and no step
\* removes a stored row or changes its id.
C17_ReferentialIntegrity == []ReferentialIntegrity /\ [][NoRowRemoved]_vars

\* C17 witness: a lesson, its module and the module's course are stored while
\* another request is between its query and its commit.
C17_Witness ==
    /\ lessons # <<>>
    /\ \E r \in Requests : sessions[r].pc = "commit" /\ sessions[r].op # "create_course"

=============================================================================
